---- MODULE Spec2Model ----
\* A model of build_array::ArrayBuilder<T, N> (src/src/lib.rs): a builder that
\* stores up to N pushed items in an arrayvec::ArrayVec<T, N>, counts the pushes
\* that did not fit, and hands the items out as a [T; N] under four policies.
EXTENDS Integers, Sequences, FiniteSets, TLC

\* ---------------------------------------------------------------- bounds
\* Largest capacity N explored (N is a const generic: any usize).
MaxN == 2
\* The element type T is modelled by the values 1..MaxItem.
MaxItem == 2
\* Pushes into a full builder are explored until excess reaches MaxExcess.
MaxExcess == 2
\* Longest iterator handed to extend and from_iter.
MaxIter == 2

Items == 1 .. MaxItem
Capacities == 0 .. MaxN
\* The iterators handed to extend and from_iter, as the sequences they yield.
Iters == UNION {[1 .. n -> Items] : n \in 0 .. MaxIter}

\* What a caller may do with the &mut [T] it gets from as_mut_slice(): only
\* read it, swap two slots, assign to a slot (the old value is dropped), or
\* replace the value of a slot and keep the old one (core::mem::replace).
\* Slots are numbered from 1.
Writes ==
    [kind : {"read"}]
        \cup [kind : {"swap"}, i : 1 .. MaxN, j : 1 .. MaxN]
        \cup [kind : {"assign", "replace"}, i : 1 .. MaxN, v : Items]

\* ---------------------------------------------------------------- state
VARIABLES
    N,        \* the const generic N of ArrayBuilder<T, N>
    builder,  \* the ArrayBuilder: [inner |-> ArrayVec contents, excess |-> usize]
    op,       \* the method called last ("new" right after construction)
    arg,      \* its item argument: <<item>>, or <<>> for a method without one
    ret,      \* what it returned
    pre,      \* the builder as it was when that method was called
    pushed,   \* every item passed to push since construction or the last Ok
              \* build; given up (empty) once the caller has written through
              \* as_mut_slice, the stored items being the caller's from then on
    pre_pushed, \* `pushed` as it was when the last method was called
    pre_clean, \* whether, when the last method was called, the builder had seen
               \* nothing but push and extend since it was constructed
    pre_written, \* whether, when the last method was called, the caller had
               \* written through as_mut_slice since `pushed` was last empty
    prev,     \* op, arg, ret, pre and pre_clean of the call before the last one,
              \* when both were build calls
    given,    \* the values the last call took ownership of or cloned; for a
              \* write through as_mut_slice, the values the caller moved in
    dropped   \* the values whose destructor ran during the last call

vars == <<N, builder, op, arg, ret, pre, pushed, pre_pushed, pre_clean,
          pre_written, prev, given, dropped>>

\* ------------------------------------------- arrayvec::ArrayVec<T, N>
\* The storage is an ArrayVec of capacity N, modelled as the sequence of its
\* live elements.

\* ArrayVec::new_const(): no elements.
new_const == << >>

\* ArrayVec::len().
len(v) == Len(v)

\* ArrayVec::remaining_capacity(): CAP - len.
remaining_capacity(v) == N - len(v)

\* ArrayVec::try_push(item): appends unless full; Err(CapacityError) when full.
try_push(v, item) ==
    IF len(v) < N
    THEN [vec |-> Append(v, item), is_err |-> FALSE]
    ELSE [vec |-> v, is_err |-> TRUE]

\* ArrayVec::take(): mem::replace(self, ArrayVec::new()): the contents move out
\* and the vector left behind is empty.
take(v) == [taken |-> v, left |-> new_const]

\* ArrayVec::into_inner(): Ok([T; CAP]) when len == CAP, else Err(self).
into_inner(v) ==
    IF len(v) < N
    THEN [is_ok |-> FALSE, array |-> << >>]
    ELSE [is_ok |-> TRUE, array |-> v]

\* as_slice(): the live elements, excess items not included.
as_slice(self) == self.inner

\* as_mut_slice(): the same elements, writable in place.
as_mut_slice(self) == self.inner

\* T::clone() of a plain value.
clone(item) == item

\* ---------------------------------------------------------------- results
Ok(array) == [kind |-> "Ok", array |-> array]
Err(e) == [kind |-> "Err", error |-> e]
\* unreachable!() / ArrayVec::push on a full vector.
Panic == [kind |-> "Panic"]
NoReturn == [kind |-> "None"]

\* ---------------------------------------------------------------- ArrayBuilder
\* ArrayBuilder::new().
new == [inner |-> new_const, excess |-> 0]

\* push that, once full, makes room by letting go of the oldest stored item.
push_keeps_latest(self, item) ==
    LET r == try_push(self.inner, item)
    IN  IF r.is_err
        THEN [inner |-> IF self.inner = << >> THEN << >>
                        ELSE Append(Tail(self.inner), item),
              excess |-> self.excess + 1]
        ELSE [inner |-> r.vec, excess |-> self.excess]

\* push that stores without asking whether there is room.
push_unbounded(self, item) ==
    [inner |-> Append(self.inner, item), excess |-> self.excess]

\* push with the count of the items that did not fit left out.
push_uncounted(self, item) ==
    LET r == try_push(self.inner, item)
    IN  [inner |-> r.vec, excess |-> self.excess]

\* ArrayBuilder::push(item): stored while there is room, counted in excess
\* (and dropped) once the storage is full.
push(self, item) ==
    LET r == try_push(self.inner, item)
    IN  IF r.is_err
        THEN [inner |-> r.vec, excess |-> self.excess + 1]
        ELSE [inner |-> r.vec, excess |-> self.excess]

\* What push drops: the item handed back by try_push in Err(CapacityError(item))
\* is a temporary of the `if` condition and is dropped there.
push_dropped(self, item) ==
    IF try_push(self.inner, item).is_err THEN <<item>> ELSE << >>

\* The loop of pad_with: n iterations of self.inner.push(f()); ArrayVec::push
\* panics when the vector is full.
RECURSIVE pad_loop(_, _, _)
pad_loop(v, n, item) ==
    IF n = 0
    THEN [vec |-> v, panic |-> FALSE]
    ELSE LET r == try_push(v, clone(item))
         IN  IF r.is_err
             THEN [vec |-> v, panic |-> TRUE]
             ELSE pad_loop(r.vec, n - 1, item)

\* pad_with with a range that runs one step too far.
pad_with_one_more(self, item) ==
    pad_loop(self.inner, remaining_capacity(self.inner) + 1, item)

\* pad_with with a range that stops one slot short.
pad_with_one_short(self, item) ==
    LET n == remaining_capacity(self.inner)
    IN  pad_loop(self.inner, IF n > 0 THEN n - 1 ELSE 0, item)

\* ArrayBuilder::pad_with(|| item.clone()): the range 0..remaining_capacity()
\* is evaluated once, before the first push.
pad_with(self, item) ==
    pad_loop(self.inner, remaining_capacity(self.inner), item)

\* The clones pad_with makes: one call of f() for each step of the range.
pad_with_cloned(self, item) ==
    [i \in 1 .. remaining_capacity(self.inner) |-> clone(item)]

\* error() with the excess left out of actual.
error_stored_only(self) == [expected |-> N, actual |-> len(self.inner)]

\* ArrayBuilder::error().
error(self) == [expected |-> N, actual |-> len(self.inner) + self.excess]

\* into_inner() on a copy of the storage, which stays where it is.
take_into_inner_copying(v, excess) ==
    LET r == into_inner(v)
    IN  [self |-> [inner |-> v, excess |-> excess],
         ret  |-> IF r.is_ok THEN Ok(r.array) ELSE Panic]

\* self.inner.take().into_inner() and the match on it, shared by the four
\* build methods: the storage is left empty, excess becomes `excess`.
take_into_inner(v, excess) ==
    LET t == take(v)
        r == into_inner(t.taken)
    IN  [self |-> [inner |-> t.left, excess |-> excess],
         ret  |-> IF r.is_ok THEN Ok(r.array) ELSE Panic]

\* The clones build_pad makes: none when it returns early.
build_pad_cloned(self, item) ==
    IF self.excess > 0 THEN << >> ELSE pad_with_cloned(self, item)

\* build_pad that pads before it looks at excess.
build_pad_pads_first(self, item) ==
    LET p == pad_with(self, item)
    IN  IF p.panic
        THEN [self |-> [self EXCEPT !.inner = p.vec], ret |-> Panic]
        ELSE IF self.excess > 0
             THEN [self |-> [self EXCEPT !.inner = p.vec],
                   ret |-> Err(error([self EXCEPT !.inner = p.vec]))]
             ELSE take_into_inner(p.vec, self.excess)

\* build_pad without its check of excess.
build_pad_unchecked(self, item) ==
    LET p == pad_with(self, item)
    IN  IF p.panic
        THEN [self |-> [self EXCEPT !.inner = p.vec], ret |-> Panic]
        ELSE take_into_inner(p.vec, self.excess)

\* ArrayBuilder::build_pad(item).
build_pad(self, item) ==
    IF self.excess > 0
    THEN [self |-> self, ret |-> Err(error(self))]
    ELSE LET p == pad_with(self, item)
         IN  IF p.panic
             THEN [self |-> [self EXCEPT !.inner = p.vec], ret |-> Panic]
             ELSE take_into_inner(p.vec, self.excess)

\* build_pad_truncate without `self.excess = 0`.
build_pad_truncate_keeps_excess(self, item) ==
    LET p == pad_with(self, item)
    IN  IF p.panic
        THEN [self |-> [self EXCEPT !.inner = p.vec], ret |-> Panic]
        ELSE take_into_inner(p.vec, self.excess)

\* ArrayBuilder::build_pad_truncate(item).
build_pad_truncate(self, item) ==
    LET p == pad_with(self, item)
    IN  IF p.panic
        THEN [self |-> [self EXCEPT !.inner = p.vec], ret |-> Panic]
        ELSE take_into_inner(p.vec, 0)

\* build_truncate that also forgets the excess pushes when it succeeds.
build_truncate_resetting(self) ==
    IF remaining_capacity(self.inner) = 0
    THEN take_into_inner(self.inner, 0)
    ELSE [self |-> self, ret |-> Err(error(self))]

\* build_truncate refusing a full builder that saw excess pushes.
build_truncate_strict(self) ==
    IF remaining_capacity(self.inner) = 0 /\ self.excess = 0
    THEN take_into_inner(self.inner, self.excess)
    ELSE [self |-> self, ret |-> Err(error(self))]

\* ArrayBuilder::build_truncate(): excess is neither read nor written.
build_truncate(self) ==
    IF remaining_capacity(self.inner) = 0
    THEN take_into_inner(self.inner, self.excess)
    ELSE [self |-> self, ret |-> Err(error(self))]

\* build_exact that gives up the stored items when it fails.
build_exact_clearing(self) ==
    IF remaining_capacity(self.inner) = 0 /\ self.excess = 0
    THEN take_into_inner(self.inner, self.excess)
    ELSE [self |-> [inner |-> take(self.inner).left, excess |-> self.excess],
          ret |-> Err(error(self))]

\* build_exact without its check of excess.
build_exact_ignoring_excess(self) ==
    IF remaining_capacity(self.inner) = 0
    THEN take_into_inner(self.inner, self.excess)
    ELSE [self |-> self, ret |-> Err(error(self))]

\* ArrayBuilder::build_exact().
build_exact(self) ==
    IF remaining_capacity(self.inner) = 0 /\ self.excess = 0
    THEN take_into_inner(self.inner, self.excess)
    ELSE [self |-> self, ret |-> Err(error(self))]

\* extend that stops at the first item that does not fit.
RECURSIVE extend_until_full(_, _)
extend_until_full(self, iter) ==
    IF iter = << >> \/ remaining_capacity(self.inner) <= 0
    THEN self
    ELSE extend_until_full(push(self, Head(iter)), Tail(iter))

\* Extend::extend(iter): for it in iter { self.push(it); }
RECURSIVE extend(_, _)
extend(self, iter) ==
    IF iter = << >>
    THEN self
    ELSE extend(push(self, Head(iter)), Tail(iter))

\* What the pushes of extend drop, in order.
RECURSIVE extend_dropped(_, _)
extend_dropped(self, iter) ==
    IF iter = << >>
    THEN << >>
    ELSE push_dropped(self, Head(iter))
             \o extend_dropped(push(self, Head(iter)), Tail(iter))

\* FromIterator::from_iter(iter): new(), then extend(iter).
from_iter(iter) == extend(new, iter)

\* Dropping the builder drops its fields: the ArrayVec drops its len() live
\* elements, excess is a plain usize.
drop_builder(self) == as_slice(self)

\* ---------------------------------------------------------------- actions
BuildOps == {"build_exact", "build_pad", "build_pad_truncate", "build_truncate"}

\* What prev holds unless the last two calls were both build calls.
NoBuild == [op |-> "none"]

\* let mut b = ArrayBuilder::<T, N>::new();
Init ==
    /\ N \in Capacities
    /\ builder = new
    /\ op = "new"
    /\ arg = << >>
    /\ ret = NoReturn
    /\ pre = new
    /\ pushed = << >>
    /\ pre_pushed = << >>
    /\ pre_clean = TRUE
    /\ pre_written = FALSE
    /\ prev = NoBuild
    /\ given = << >>
    /\ dropped = << >>

\* A panic unwinds out of the caller and a dropped builder is gone: nothing
\* is called after either.
Running == ret.kind # "Panic" /\ op # "drop"

\* Whether the builder has seen nothing but push and extend since new() or
\* from_iter().
clean == op = "from_iter" \/ (pre_clean /\ op \in {"new", "push", "extend"})

\* Whether the stored items may differ from the pushed ones because the caller
\* wrote through as_mut_slice() since construction or the last Ok build.
written ==
    \/ op = "as_mut_slice"
    \/ /\ pre_written
       /\ op # "from_iter"
       /\ ~(op \in BuildOps /\ ret.kind = "Ok")

\* The bookkeeping common to every call: what is remembered of the call
\* before it.
Called(name, a) ==
    /\ op' = name
    /\ arg' = a
    /\ pre_pushed' = pushed
    /\ pre_clean' = clean
    /\ pre_written' = written
    /\ prev' = IF op \in BuildOps /\ name \in BuildOps
                THEN [op |-> op, arg |-> arg, ret |-> ret, pre |-> pre,
                      pre_clean |-> pre_clean]
                ELSE NoBuild
    /\ UNCHANGED N

\* The bookkeeping of a build call: an Ok build starts a new round of pushes.
\* `cloned` are the clones the call made of its item; the item itself is
\* dropped when the method returns.
Built(name, a, r, cloned) ==
    /\ Called(name, a)
    /\ pre' = builder
    /\ builder' = r.self
    /\ ret' = r.ret
    /\ pushed' = IF r.ret.kind = "Ok" THEN << >> ELSE pushed
    /\ given' = a \o cloned
    /\ dropped' = a

\* b.push(item)
Push(item) ==
    /\ Running
    /\ len(builder.inner) < N \/ builder.excess < MaxExcess
    /\ Called("push", <<item>>)
    /\ pre' = builder
    /\ builder' = push(builder, item)
    /\ ret' = NoReturn
    /\ pushed' = IF written THEN << >> ELSE Append(pushed, item)
    /\ given' = <<item>>
    /\ dropped' = push_dropped(builder, item)

\* b.build_exact()
BuildExact ==
    /\ Running
    /\ Built("build_exact", << >>, build_exact(builder), << >>)

\* b.build_pad(item)
BuildPad(item) ==
    /\ Running
    /\ Built("build_pad", <<item>>, build_pad(builder, item),
             build_pad_cloned(builder, item))

\* b.build_pad_truncate(item)
BuildPadTruncate(item) ==
    /\ Running
    /\ Built("build_pad_truncate", <<item>>, build_pad_truncate(builder, item),
             pad_with_cloned(builder, item))

\* b.build_truncate()
BuildTruncate ==
    /\ Running
    /\ Built("build_truncate", << >>, build_truncate(builder), << >>)

\* b.extend(iter)
Extend(iter) ==
    /\ Running
    /\ extend(builder, iter).excess <= MaxExcess
    /\ Called("extend", iter)
    /\ pre' = builder
    /\ builder' = extend(builder, iter)
    /\ ret' = NoReturn
    /\ pushed' = IF written THEN << >> ELSE pushed \o iter
    /\ given' = iter
    /\ dropped' = extend_dropped(builder, iter)

\* let mut b = ArrayBuilder::<T, N>::from_iter(iter): the builder is
\* constructed from an iterator instead of by new().
FromIter(iter) ==
    /\ op = "new"
    /\ from_iter(iter).excess <= MaxExcess
    /\ Called("from_iter", iter)
    /\ pre' = builder
    /\ builder' = from_iter(iter)
    /\ ret' = NoReturn
    /\ pushed' = iter
    /\ given' = iter
    /\ dropped' = extend_dropped(new, iter)

\* Whether the write stays inside a slice of length n.
in_bounds(w, n) ==
    \/ w.kind = "read"
    \/ w.kind = "swap" /\ w.i <= n /\ w.j <= n
    \/ w.kind \in {"assign", "replace"} /\ w.i <= n

\* The slice after the write.
write(slice, w) ==
    IF w.kind = "read" THEN slice
    ELSE IF w.kind = "swap"
        THEN [slice EXCEPT ![w.i] = slice[w.j], ![w.j] = slice[w.i]]
        ELSE [slice EXCEPT ![w.i] = w.v]

\* The values the write moves into the slots from outside.
write_given(w) ==
    IF w.kind \in {"assign", "replace"} THEN <<w.v>> ELSE << >>

\* The values whose destructor the write runs: an assignment drops the value
\* it overwrites; a swap moves values and a replace hands the old one back.
write_dropped(slice, w) ==
    IF w.kind = "assign" THEN <<slice[w.i]>> ELSE << >>

\* A use of b.as_mut_slice(): the caller holds &mut [T] over the stored items
\* and does one write `w` through it; the length, and excess, are out of its
\* reach. Longer uses of the borrow are sequences of this step.
AsMutSlice(w) ==
    /\ Running
    /\ in_bounds(w, len(as_mut_slice(builder)))
    /\ Called("as_mut_slice", << >>)
    /\ pre' = builder
    /\ builder' = [builder EXCEPT !.inner = write(as_mut_slice(builder), w)]
    /\ ret' = NoReturn
    /\ pushed' = << >>
    /\ given' = write_given(w)
    /\ dropped' = write_dropped(as_mut_slice(builder), w)

\* drop(b): the builder goes out of scope.
Discard ==
    /\ Running
    /\ Called("drop", << >>)
    /\ pre' = builder
    /\ builder' = builder
    /\ ret' = NoReturn
    /\ pushed' = pushed
    /\ given' = << >>
    /\ dropped' = drop_builder(builder)

Next ==
    \/ \E item \in Items : Push(item)
    \/ BuildExact
    \/ \E item \in Items : BuildPad(item)
    \/ \E item \in Items : BuildPadTruncate(item)
    \/ BuildTruncate
    \/ \E iter \in Iters : Extend(iter)
    \/ \E iter \in Iters : FromIter(iter)
    \/ \E w \in Writes : AsMutSlice(w)
    \/ Discard

Spec == Init /\ [][Next]_vars

\* ---------------------------------------------------------------- helpers
\* n copies of item.
Copies(n, item) == [i \in 1 .. n |-> item]

\* The first n elements of s (all of s when it is shorter).
Prefix(s, n) == SubSeq(s, 1, IF Len(s) < n THEN Len(s) ELSE n)

TypeOK ==
    /\ N \in Capacities
    /\ builder.inner \in Seq(Items) /\ len(builder.inner) <= N
    /\ builder.excess \in 0 .. MaxExcess
    /\ op \in BuildOps \cup {"new", "push", "extend", "from_iter", "drop",
                            "as_mut_slice"}
    /\ ret.kind \in {"None", "Ok", "Err"}

\* ---------------------------------------------------------------- claims
\* In the formulas below `pre` is the builder when the last method was called,
\* `builder` the builder when it returned, and occupied is len(inner).
occupied(self) == len(as_slice(self))

\* C1: push(item) with occupied < N stores item at slot occupied, raises
\* occupied by exactly 1 and leaves excess and the earlier slots unchanged;
\* with occupied == N it discards item, raises excess by exactly 1 and leaves
\* occupied and every stored slot unchanged.
C1_Push ==
    op = "push" =>
        IF occupied(pre) < N
        THEN /\ occupied(builder) = occupied(pre) + 1
             /\ as_slice(builder)[occupied(pre) + 1] = arg[1]
             /\ SubSeq(as_slice(builder), 1, occupied(pre)) = as_slice(pre)
             /\ builder.excess = pre.excess
        ELSE /\ occupied(pre) = N
             /\ as_slice(builder) = as_slice(pre)
             /\ builder.excess = pre.excess + 1

\* A push into a full, non-empty builder that had already counted one excess.
C1_Witness ==
    /\ op = "push"
    /\ N > 0
    /\ occupied(pre) = N
    /\ pre.excess = 1
    /\ builder.excess = 2

\* C2: build_exact succeeds iff occupied == N and excess == 0, and the array
\* it returns is the stored items, which are the pushed items in push order.
C2_BuildExact ==
    op = "build_exact" =>
        /\ (ret.kind = "Ok") <=> (occupied(pre) = N /\ pre.excess = 0)
        /\ ret.kind = "Ok" =>
            /\ ret.array = as_slice(pre)
            /\ ~pre_written => ret.array = pre_pushed
            /\ Len(ret.array) = N

\* build_exact refused a full builder because of excess pushes.
C2_Witness ==
    /\ op = "build_exact"
    /\ N = MaxN
    /\ occupied(pre) = N
    /\ pre.excess > 0
    /\ ret.kind = "Err"

\* C3 (as claimed): after any successful build the builder equals a freshly
\* created one, occupied == 0 and excess == 0.
C3_SuccessLeavesFreshBuilder ==
    (op \in BuildOps /\ ret.kind = "Ok") => builder = new

\* A successful build_truncate of a builder that saw excess pushes.
C3_Witness ==
    /\ op = "build_truncate"
    /\ ret.kind = "Ok"
    /\ pre.excess > 0

\* C4: a failed build_exact returns expected == N and actual == occupied +
\* excess as they were before the call, and leaves the builder unchanged.
C4_BuildExactErr ==
    (op = "build_exact" /\ ret.kind = "Err") =>
        /\ ret.error.expected = N
        /\ ret.error.actual = occupied(pre) + pre.excess
        /\ builder = pre

\* build_exact failed on a full builder with excess pushes.
C4_Witness ==
    /\ op = "build_exact"
    /\ ret.kind = "Err"
    /\ N > 0
    /\ occupied(pre) = N
    /\ pre.excess > 0

\* C5: build_pad called with excess > 0 fails with expected == N and actual ==
\* occupied + excess, pads nothing and leaves the builder unchanged.
C5_BuildPadExcess ==
    (op = "build_pad" /\ pre.excess > 0) =>
        /\ ret.kind = "Err"
        /\ ret.error.expected = N
        /\ ret.error.actual = occupied(pre) + pre.excess
        /\ builder = pre

\* build_pad called with excess pushes on a builder that has stored items.
C5_Witness ==
    /\ op = "build_pad"
    /\ pre.excess > 0
    /\ occupied(pre) > 0
    /\ ret.kind = "Err"

\* C6: build_pad(pad) called with excess == 0 and occupied == k succeeds and
\* returns the k stored items in push order followed by N - k copies of pad.
C6_BuildPadOk ==
    (op = "build_pad" /\ pre.excess = 0) =>
        /\ ret.kind = "Ok"
        /\ Len(ret.array) = N
        /\ ret.array = as_slice(pre) \o Copies(N - occupied(pre), arg[1])
        /\ ~pre_written => as_slice(pre) = Prefix(pre_pushed, N)

\* build_pad padded a partly filled builder with a value unlike the stored one.
C6_Witness ==
    /\ op = "build_pad"
    /\ ret.kind = "Ok"
    /\ occupied(pre) = 1
    /\ N = MaxN
    /\ as_slice(pre)[1] # arg[1]

\* C7: build_pad_truncate(pad) succeeds whatever occupied and excess are,
\* returns the stored items in push order followed by N - occupied copies of
\* pad, and leaves occupied == 0 and excess == 0.
C7_BuildPadTruncate ==
    op = "build_pad_truncate" =>
        /\ ret.kind = "Ok"
        /\ Len(ret.array) = N
        /\ ret.array = as_slice(pre) \o Copies(N - occupied(pre), arg[1])
        /\ ~pre_written => as_slice(pre) = Prefix(pre_pushed, N)
        /\ occupied(builder) = 0
        /\ builder.excess = 0

\* build_pad_truncate on a full builder that saw excess pushes.
C7_Witness ==
    /\ op = "build_pad_truncate"
    /\ ret.kind = "Ok"
    /\ N > 0
    /\ occupied(pre) = N
    /\ pre.excess > 0

\* C8: build_truncate succeeds iff occupied == N, whatever excess is, and
\* returns the N stored items in push order; with occupied < N it fails and
\* leaves occupied, every stored slot and excess unchanged.
C8_BuildTruncate ==
    op = "build_truncate" =>
        /\ (ret.kind = "Ok") <=> (occupied(pre) = N)
        /\ ret.kind = "Ok" =>
            /\ ret.array = as_slice(pre)
            /\ ~pre_written => ret.array = Prefix(pre_pushed, N)
            /\ Len(ret.array) = N
        /\ occupied(pre) < N => ret.kind = "Err" /\ builder = pre

\* build_truncate succeeded on a full builder that saw excess pushes.
C8_Witness ==
    /\ op = "build_truncate"
    /\ ret.kind = "Ok"
    /\ N > 0
    /\ pre.excess > 0

\* C9 (as claimed): the error of a failed build_truncate reports a shortfall,
\* actual < expected.
C9_BuildTruncateErrIsShortfall ==
    (op = "build_truncate" /\ ret.kind = "Err") =>
        ret.error.actual < ret.error.expected

\* A failed build_truncate.
C9_Witness ==
    /\ op = "build_truncate"
    /\ ret.kind = "Err"
    /\ ret.error.actual >= ret.error.expected

\* C10 (as claimed): the error of a failed build_pad is a too-many error,
\* actual > expected.
C10_BuildPadErrIsTooMany ==
    (op = "build_pad" /\ ret.kind = "Err") =>
        ret.error.actual > ret.error.expected

\* A failed build_pad whose error reads "too few".
C10_Witness ==
    /\ op = "build_pad"
    /\ ret.kind = "Err"
    /\ ret.error.actual < ret.error.expected

\* C11 (as claimed): the error of a failed build_exact describes a real
\* mismatch, actual != expected.
C11_BuildExactErrIsMismatch ==
    (op = "build_exact" /\ ret.kind = "Err") =>
        ret.error.actual # ret.error.expected

\* A failed build_exact whose error has actual == expected.
C11_Witness ==
    /\ op = "build_exact"
    /\ ret.kind = "Err"
    /\ ret.error.actual = ret.error.expected

\* C12: after k > N pushes into a newly constructed builder the first N pushed
\* items are stored in push order and excess == k - N; there build_exact and
\* build_pad fail with actual == k, and build_truncate and build_pad_truncate
\* succeed and return exactly the first N pushed items.
C12_FreshTooMany ==
    (op \in BuildOps /\ pre_clean /\ Len(pre_pushed) > N) =>
        /\ as_slice(pre) = SubSeq(pre_pushed, 1, N)
        /\ pre.excess = Len(pre_pushed) - N
        /\ op \in {"build_exact", "build_pad"} =>
            /\ ret.kind = "Err"
            /\ ret.error.actual = Len(pre_pushed)
        /\ op \in {"build_truncate", "build_pad_truncate"} =>
            /\ ret.kind = "Ok"
            /\ ret.array = SubSeq(pre_pushed, 1, N)

\* build_pad_truncate after N + 2 pushes into a new builder, the stored items
\* and the excess ones being different values.
C12_Witness ==
    /\ op = "build_pad_truncate"
    /\ pre_clean
    /\ N = MaxN
    /\ Len(pre_pushed) = N + 2
    /\ pre_pushed[N + 1] # pre_pushed[N]
    /\ ret.kind = "Ok"

\* C13: after k < N pushes into a newly constructed builder build_exact fails
\* with expected == N and actual == k, and a build_pad(x) called right after
\* it succeeds and returns the k pushed items in push order followed by N - k
\* copies of x.
C13_FreshTooFew ==
    /\ (op = "build_exact" /\ pre_clean /\ Len(pre_pushed) < N) =>
        /\ ret.kind = "Err"
        /\ ret.error = [expected |-> N, actual |-> Len(pre_pushed)]
    /\ (/\ op = "build_pad"
        /\ prev.op = "build_exact"
        /\ prev.pre_clean
        /\ prev.ret.kind = "Err"
        /\ Len(pre_pushed) < N) =>
        /\ ret.kind = "Ok"
        /\ ret.array = pre_pushed \o Copies(N - Len(pre_pushed), arg[1])

\* build_pad succeeded right after build_exact failed on a new builder that
\* held one item of MaxN.
C13_Witness ==
    /\ op = "build_pad"
    /\ prev.op = "build_exact"
    /\ prev.pre_clean
    /\ prev.ret.kind = "Err"
    /\ N = MaxN
    /\ Len(pre_pushed) = 1
    /\ pre_pushed[1] # arg[1]
    /\ ret.kind = "Ok"

\* C14: when build_exact, build_pad or build_truncate fails and the identical
\* call is repeated at once, it fails again with the same expected and actual,
\* and the builder after the second call equals the builder before the first.
C14_FailureIdempotent ==
    (/\ op \in {"build_exact", "build_pad", "build_truncate"}
     /\ prev.op = op
     /\ prev.arg = arg
     /\ prev.ret.kind = "Err") =>
        /\ ret.kind = "Err"
        /\ ret.error = prev.ret.error
        /\ builder = prev.pre

\* build_pad failed twice in a row on a builder with stored items.
C14_Witness ==
    /\ op = "build_pad"
    /\ prev.op = "build_pad"
    /\ prev.arg = arg
    /\ prev.ret.kind = "Err"
    /\ ret.kind = "Err"
    /\ occupied(prev.pre) > 0

\* C15: once excess > 0, every call of push, extend, build_exact, build_pad
\* and build_truncate leaves excess > 0, and every build_exact among them
\* returns an error: only build_pad_truncate lets build_exact succeed again.
C15_ExcessBlocksBuildExact ==
    [][(/\ builder.excess > 0
        /\ op' \in {"push", "extend", "build_exact", "build_pad",
                    "build_truncate"}) =>
            /\ builder'.excess > 0
            /\ op' = "build_exact" => ret'.kind = "Err"]_vars

\* build_exact failed on a full builder whose excess was counted before an
\* earlier successful build_truncate.
C15_Witness ==
    /\ op = "build_exact"
    /\ ret.kind = "Err"
    /\ N > 0
    /\ occupied(pre) = N
    /\ pre.excess > 0
    /\ Len(pre_pushed) = N

\* How often each value occurs in s.
Count(s) == [v \in Items |-> Cardinality({i \in DOMAIN s : s[i] = v})]

\* The values the builder owns after the last call.
Held == IF op = "drop" THEN << >> ELSE as_slice(builder)

\* The values the last call handed to its caller.
Returned == IF ret.kind = "Ok" THEN ret.array ELSE << >>

\* C16: every push, extend, from_iter, build call and drop conserves the
\* values: those the builder held before plus those the call was given or
\* cloned are, after it, each in exactly one of the builder, the returned
\* array and the dropped values; and dropping a builder with occupied == j
\* drops exactly its j stored values. (What a caller does with the slots it
\* borrows through as_mut_slice is its own: a value it replaces and keeps is
\* in none of the three places.)
C16_NoValueLostOrDuplicated ==
    /\ op # "as_mut_slice" =>
        \A v \in Items :
            Count(as_slice(pre))[v] + Count(given)[v]
                = Count(Held)[v] + Count(Returned)[v] + Count(dropped)[v]
    /\ op = "drop" =>
        /\ dropped = as_slice(pre)
        /\ Len(dropped) = occupied(pre)

\* A partly filled builder was dropped.
C16_Witness ==
    /\ op = "drop"
    /\ N = MaxN
    /\ occupied(pre) = 1
    /\ Len(dropped) = 1

\* C17: no call panics: neither an unreachable!() arm nor ArrayVec::push on a
\* full vector is ever executed.
C17_NoPanic == ret.kind # "Panic"

\* build_pad filled a whole empty builder of the largest capacity.
C17_Witness ==
    /\ op = "build_pad"
    /\ ret.kind = "Ok"
    /\ N = MaxN
    /\ occupied(pre) = 0
    /\ Len(ret.array) = N

\* C18: 0 <= occupied <= N in every state.
C18_OccupiedWithinCapacity ==
    /\ occupied(builder) \in 0 .. N
    /\ occupied(pre) \in 0 .. N

\* A push into a builder that was already full.
C18_Witness ==
    /\ op = "push"
    /\ N = MaxN
    /\ occupied(pre) = N
    /\ occupied(builder) = N
    /\ pre.excess = 0

\* C19 (as claimed): excess > 0 implies occupied == N.
C19_ExcessOnlyWhenFull ==
    builder.excess > 0 => occupied(builder) = N

\* A builder with excess > 0 that is not full.
C19_Witness ==
    /\ builder.excess > 0
    /\ occupied(builder) < N

Max(a, b) == IF a < b THEN b ELSE a

\* C20: extend(iter) stores the items of iter, in order, while there is room
\* and counts the others in excess, as one push for each item does; from_iter
\* leaves occupied == min(len, N), the first items in order, and excess ==
\* max(len - N, 0).
C20_ExtendIsPushes ==
    /\ op = "extend" =>
        /\ as_slice(builder) = Prefix(as_slice(pre) \o arg, N)
        /\ builder.excess
            = pre.excess + Max(occupied(pre) + Len(arg) - N, 0)
    /\ op = "from_iter" =>
        /\ as_slice(builder) = Prefix(arg, N)
        /\ occupied(builder) = IF Len(arg) < N THEN Len(arg) ELSE N
        /\ builder.excess = Max(Len(arg) - N, 0)

\* extend ran over an iterator of which one item fitted and one did not.
C20_Witness ==
    /\ op = "extend"
    /\ N > 0
    /\ occupied(pre) = N - 1
    /\ Len(arg) = 2
    /\ occupied(builder) = N
    /\ builder.excess = pre.excess + 1
====
